---- MODULE Spec2Model ----
(***************************************************************************)
(* A model of pst_2_json_4_llm.py: the command-line driver (main,          *)
(* open_pst), the recursive folder walk (get_folder_emails), the field     *)
(* extractor (extract_email_fields) and the criteria matcher               *)
(* (email_matches_criteria).                                               *)
(*                                                                         *)
(* Python values are represented as follows.                               *)
(*   str            a sequence of one-character strings over Alphabet      *)
(*   None / value   an optional is a sequence of length 0 (None) or 1      *)
(*   datetime       a record [day, sec, us] (date, time of day,            *)
(*                  microsecond), ordered lexicographically                *)
(*   ISO-8601 text  the sequence of tokens isoformat() writes              *)
(***************************************************************************)
EXTENDS Integers, Sequences, FiniteSets, TLC

VARIABLES
    pc,        \* control position of the running function
    args,      \* the argparse namespace of main
    criteria,  \* the criteria dict
    archive,   \* the folder tree held by the PST file
    pst,       \* the pypff handle: isfile checks, open and close calls
    stack,     \* call stack of get_folder_emails, innermost frame last
    emails,    \* the accumulator list
    calls,     \* folder ids in the order get_folder_emails was called on them
    visits,    \* message ids in the order get_message fetched them
    appended,  \* message ids in the order their records were appended
    output,    \* the output file: None, or the list json.dump wrote
    printed,   \* the count the success line printed, or None
    status,    \* exit status of the process, None while it runs
    message,   \* argument of extract_email_fields
    email,     \* an email record (result of extraction, argument of matching)
    result     \* return value of the function under study

vars == <<pc, args, criteria, archive, pst, stack, emails, calls, visits,
          appended, output, printed, status, message, email, result>>

----------------------------------------------------------------------------
(* Bounds of the model *)

MaxChars == 3
MaxMessageChars == 2
MaxFolders == 3
MaxMessages == 3
MaxMainFolders == 2
MaxMainMessages == 2
MaxDay == 1
MaxSec == 1
MaxMicro == 1

----------------------------------------------------------------------------
(* Python values *)

None == <<>>
Some(x) == <<x>>
IsNone(o) == o = <<>>
Get(o) == o[1]

Alphabet == {"a", "A", "b"}

StrOfLen(n) == [1..n -> Alphabet]
Str(n) == UNION {StrOfLen(k) : k \in 0..n}
OptStr(n) == {None} \cup {Some(s) : s \in Str(n)}

\* str.lower(), character by character
LowerChar(c) == IF c = "A" THEN "a" ELSE c
Lower(s) == [i \in 1..Len(s) |-> LowerChar(s[i])]

\* the "in" operator on two strings
Contains(needle, hay) ==
    \E i \in 0..(Len(hay) - Len(needle)) :
        SubSeq(hay, i + 1, i + Len(needle)) = needle

\* truth value of an optional string: None and "" are false
TruthyStr(o) == ~IsNone(o) /\ Get(o) # <<>>

\* "x or y" where x is an optional string and y a string
OrStr(o, dflt) == IF TruthyStr(o) THEN Get(o) ELSE dflt

DateTimes == [day : 0..MaxDay, sec : 0..MaxSec, us : 0..MaxMicro]
Midnight(d) == [day |-> d, sec |-> 0, us |-> 0]

\* datetime.__lt__ on naive datetimes
DtLess(a, b) ==
    \/ a.day < b.day
    \/ a.day = b.day /\ a.sec < b.sec
    \/ a.day = b.day /\ a.sec = b.sec /\ a.us < b.us

Digits == <<"0", "1", "2", "3", "4", "5", "6", "7", "8", "9">>
DigitOf(n) == Digits[n + 1]
ValueOf(tok) == (CHOOSE i \in 1..Len(Digits) : Digits[i] = tok) - 1

\* datetime.isoformat(): date, "T", time, and the fraction only when the
\* microsecond is not zero
IsoFormat(dt) ==
    <<DigitOf(dt.day), "T", DigitOf(dt.sec)>>
        \o (IF dt.us = 0 THEN <<>> ELSE <<".", DigitOf(dt.us)>>)

\* datetime.fromisoformat() on such a text
FromIsoFormat(s) ==
    [day |-> ValueOf(s[1]),
     sec |-> ValueOf(s[3]),
     us  |-> IF Len(s) > 3 THEN ValueOf(s[5]) ELSE 0]

----------------------------------------------------------------------------
(* extract_email_fields *)

Return(v) == [raised |-> FALSE, value |-> v]
Raise == [raised |-> TRUE, value |-> None]

\* the body of the try block: message.delivery_time is read, tested for
\* truth and rendered with isoformat(); the read or the rendering may raise
TryDeliveryTime(m) ==
    IF m.delivery_time.kind = "raises" THEN Raise
    ELSE IF m.delivery_time.kind = "absent" THEN Return(None)
    ELSE IF m.delivery_time.kind = "unrenderable" THEN Raise
    ELSE Return(Some(IsoFormat(m.delivery_time.dt)))

\* a handler that lets the exception through
ExceptNothing(outcome) == outcome

\* the bare "except:" clause
ExceptAll(outcome) == IF outcome.raised THEN Return(None) ELSE outcome

\* "message.plain_text_body or message.html_body or ''"
BodyOf(m) == OrStr(m.plain_text_body, OrStr(m.html_body, <<>>))

extract_email_fields(m) ==
    LET t == ExceptAll(TryDeliveryTime(m))
    IN  [raised |-> t.raised,
         value  |-> [subject       |-> OrStr(m.subject, <<>>),
                     body          |-> BodyOf(m),
                     from          |-> OrStr(m.sender_name, <<>>),
                     to            |-> OrStr(m.display_to, <<>>),
                     delivery_time |-> t.value]]

----------------------------------------------------------------------------
(* email_matches_criteria *)

\* a date check that needs both bounds to be set
DateActiveBoth(c) == ~IsNone(c.date_from) /\ ~IsNone(c.date_to)

\* "if criteria['date_from'] or criteria['date_to']"
DateActive(c) == ~IsNone(c.date_from) \/ ~IsNone(c.date_to)

\* a lower bound that rejects the bound itself
BelowFromStrict(d, c) ==
    ~IsNone(c.date_from) /\ ~DtLess(Get(c.date_from), d)

\* "criteria['date_from'] and email_date < criteria['date_from']"
BelowFrom(d, c) == ~IsNone(c.date_from) /\ DtLess(d, Get(c.date_from))

\* "criteria['date_to'] and email_date > criteria['date_to']"
AboveTo(d, c) == ~IsNone(c.date_to) /\ DtLess(Get(c.date_to), d)

\* "not email['delivery_time']"
NullTimeRejected(e) == ~TruthyStr(e.delivery_time)

\* a check that compares without lowering either side
SubstringFailsCased(needle, field) ==
    TruthyStr(needle) /\ ~Contains(Get(needle), field)

\* a check that takes the empty needle for a constraint no field satisfies
SubstringFailsOnEmpty(needle, field) ==
    ~IsNone(needle)
        /\ (Get(needle) = <<>> \/ ~Contains(Lower(Get(needle)), Lower(field)))

\* "if criteria[k]: if criteria[k].lower() not in email[f].lower()"
SubstringFails(needle, field) ==
    TruthyStr(needle) /\ ~Contains(Lower(Get(needle)), Lower(field))

email_matches_criteria(e, c) ==
    IF DateActive(c) /\ NullTimeRejected(e) THEN FALSE
    ELSE IF DateActive(c)
            /\ BelowFrom(FromIsoFormat(Get(e.delivery_time)), c) THEN FALSE
    ELSE IF DateActive(c)
            /\ AboveTo(FromIsoFormat(Get(e.delivery_time)), c) THEN FALSE
    ELSE IF SubstringFails(c.from_address, e.from) THEN FALSE
    ELSE IF SubstringFails(c.subject, e.subject) THEN FALSE
    ELSE IF SubstringFails(c.body, e.body) THEN FALSE
    ELSE TRUE

----------------------------------------------------------------------------
(* The folder tree of the archive, as pypff exposes it.  Folders are       *)
(* numbered from 1 (the root); parent[f] is the folder holding f, and the  *)
(* sub-folders of a folder are indexed in increasing number.  msgs lists    *)
(* the messages of the file, each with the folder that holds it; the       *)
(* messages of a folder are indexed in the order of that list, and the     *)
(* list numbers the messages folder by folder.                             *)

RECURSIVE Ascending(_)
Ascending(S) ==
    IF S = {} THEN <<>>
    ELSE LET m == CHOOSE x \in S : \A y \in S : x <= y
         IN  <<m>> \o Ascending(S \ {m})

SubFolders(a, f) == Ascending({g \in DOMAIN a.parent : a.parent[g] = f})
MessageIds(a, f) == Ascending({j \in DOMAIN a.msgs : a.msgs[j].folder = f})

number_of_sub_folders(a, f) == Len(SubFolders(a, f))
get_sub_folder(a, f, i) == SubFolders(a, f)[i + 1]
number_of_messages(a, f) == Len(MessageIds(a, f))
get_message(a, f, i) == MessageIds(a, f)[i + 1]

----------------------------------------------------------------------------
(* get_folder_emails.  A frame of the call stack holds the folder and the  *)
(* positions of the two for loops.                                         *)

Frame(f) == [folder |-> f, sub_i |-> 0, msg_i |-> 0]

\* a walk that handles a folder's own messages before its sub-folders
MessagesFirst(a, fr) ==
    IF fr.msg_i < number_of_messages(a, fr.folder) THEN "message"
    ELSE IF fr.sub_i < number_of_sub_folders(a, fr.folder) THEN "recurse"
    ELSE "return"

\* the statement the frame executes next: the sub-folder loop runs to its
\* end before the message loop starts
StepKind(a, fr) ==
    IF fr.sub_i < number_of_sub_folders(a, fr.folder) THEN "recurse"
    ELSE IF fr.msg_i < number_of_messages(a, fr.folder) THEN "message"
    ELSE "return"

\* an append that replaces the list by the one record
AppendFresh(list, e) == <<e>>

\* emails.append(email)
AppendEmail(list, e) == Append(list, e)

Walking == pc = "get_folder_emails" /\ stack # <<>>
Top == stack[Len(stack)]

\* get_folder_emails(folder.get_sub_folder(i), criteria, emails)
Recurse ==
    /\ Walking
    /\ StepKind(Get(archive), Top) = "recurse"
    /\ LET sub == get_sub_folder(Get(archive), Top.folder, Top.sub_i)
       IN  /\ stack' = Append([stack EXCEPT ![Len(stack)].sub_i = @ + 1],
                              Frame(sub))
           /\ calls' = Append(calls, sub)
    /\ UNCHANGED <<pc, args, criteria, archive, pst, emails, visits, appended,
                   output, printed, status, message, email, result>>

\* one turn of the message loop; an exception of the extractor is not
\* caught anywhere and ends the process with a traceback
ProcessMessage ==
    /\ Walking
    /\ StepKind(Get(archive), Top) = "message"
    /\ LET id == get_message(Get(archive), Top.folder, Top.msg_i)
           r  == extract_email_fields(Get(archive).msgs[id].msg)
       IN  /\ visits' = Append(visits, id)
           /\ IF r.raised
              THEN /\ pc' = "exited"
                   /\ status' = Some(1)
                   /\ stack' = <<>>
                   /\ UNCHANGED <<emails, appended>>
              ELSE /\ stack' = [stack EXCEPT ![Len(stack)].msg_i = @ + 1]
                   /\ UNCHANGED <<pc, status>>
                   /\ IF email_matches_criteria(r.value, criteria)
                      THEN /\ emails' = AppendEmail(emails, r.value)
                           /\ appended' = Append(appended, id)
                      ELSE UNCHANGED <<emails, appended>>
    /\ UNCHANGED <<args, criteria, archive, pst, calls, output, printed,
                   message, email, result>>

\* the end of the function body: back in the caller, which is the loop of
\* the enclosing call, main, or the caller of a direct call
ReturnFromFolder ==
    /\ Walking
    /\ StepKind(Get(archive), Top) = "return"
    /\ stack' = SubSeq(stack, 1, Len(stack) - 1)
    /\ pc' = IF Len(stack) > 1 THEN pc
             ELSE IF IsNone(args) THEN "returned" ELSE "write"
    /\ UNCHANGED <<args, criteria, archive, pst, emails, calls, visits,
                   appended, output, printed, status, message, email, result>>

----------------------------------------------------------------------------
(* main and open_pst *)

\* datetime.strptime(text, '%Y-%m-%d'): the date at midnight, or ValueError.
\* A date text is the one token that names its day.
Strptime(text) ==
    IF Len(text) = 1 /\ \E i \in 1..Len(Digits) : Digits[i] = text[1]
    THEN Return(Midnight(ValueOf(text[1])))
    ELSE Raise

\* "if args.date_x:"
DateGiven(arg) == TruthyStr(arg)

EmptyCriteria ==
    [date_from |-> None, date_to |-> None, from_address |-> None,
     subject |-> None, body |-> None]

NoHandle == [isfile_checks |-> 0, open_calls |-> 0, is_open |-> FALSE,
             close_calls |-> 0]

NoOutput == [state |-> "absent", data |-> <<>>]

Exit(code) ==
    /\ pc' = "exited"
    /\ status' = Some(code)

ParseDateFrom ==
    /\ pc = "parse_date_from"
    /\ IF DateGiven(Get(args).date_from)
       THEN LET d == Strptime(Get(Get(args).date_from))
            IN  IF d.raised
                THEN Exit(1) /\ UNCHANGED criteria
                ELSE /\ criteria' = [criteria EXCEPT !.date_from = Some(d.value)]
                     /\ pc' = "parse_date_to"
                     /\ UNCHANGED status
       ELSE /\ criteria' = [criteria EXCEPT !.date_from = None]
            /\ pc' = "parse_date_to"
            /\ UNCHANGED status
    /\ UNCHANGED <<args, archive, pst, stack, emails, calls, visits, appended,
                   output, printed, message, email, result>>

ParseDateTo ==
    /\ pc = "parse_date_to"
    /\ IF DateGiven(Get(args).date_to)
       THEN LET d == Strptime(Get(Get(args).date_to))
            IN  IF d.raised
                THEN Exit(1) /\ UNCHANGED criteria
                ELSE /\ criteria' = [criteria EXCEPT
                                        !.date_to = Some(d.value),
                                        !.from_address = Get(args).from_address,
                                        !.subject = Get(args).subject,
                                        !.body = Get(args).body]
                     /\ pc' = "open_pst"
                     /\ UNCHANGED status
       ELSE /\ criteria' = [criteria EXCEPT
                               !.date_to = None,
                               !.from_address = Get(args).from_address,
                               !.subject = Get(args).subject,
                               !.body = Get(args).body]
            /\ pc' = "open_pst"
            /\ UNCHANGED status
    /\ UNCHANGED <<args, archive, pst, stack, emails, calls, visits, appended,
                   output, printed, message, email, result>>
\* The sample messages archives are filled with: one with a readable
\* delivery time, one whose delivery time cannot be read.
ReadableMessage ==
    [subject |-> Some(<<"a", "b">>), plain_text_body |-> None,
     html_body |-> Some(<<"b">>), sender_name |-> Some(<<"A">>),
     display_to |-> None,
     delivery_time |-> [kind |-> "ok", dt |-> Midnight(0)]]

UnreadableMessage ==
    [subject |-> Some(<<"b">>), plain_text_body |-> Some(<<"a">>),
     html_body |-> None, sender_name |-> None, display_to |-> Some(<<"a">>),
     delivery_time |-> [kind |-> "raises", dt |-> Midnight(0)]]

SampleMessages == {ReadableMessage, UnreadableMessage}

Archives(maxFolders, maxMessages) ==
    UNION {
        {[parent |-> p, msgs |-> m] :
            p \in {q \in [1..n -> 0..n] :
                      /\ q[1] = 0
                      /\ \A g \in 2..n : q[g] >= 1 /\ q[g] < g},
            m \in UNION {{x \in [1..k -> [folder : 1..n, msg : SampleMessages]] :
                             \A j \in 1..(k - 1) : x[j].folder <= x[j + 1].folder} :
                            k \in 0..maxMessages}} :
        n \in 1..maxFolders}

\* open_pst, pst.get_root_folder(), emails = [] and the call of the walk on
\* the root folder
OpenPst ==
    /\ pc = "open_pst"
    /\ \E file \in {"missing", "unopenable", "ok"} :
          IF file = "missing"
          THEN /\ pst' = [pst EXCEPT !.isfile_checks = @ + 1]
               /\ Exit(1)
               /\ UNCHANGED <<archive, stack, calls>>
          ELSE IF file = "unopenable"
          THEN /\ pst' = [pst EXCEPT !.isfile_checks = @ + 1,
                                     !.open_calls = @ + 1]
               /\ Exit(1)
               /\ UNCHANGED <<archive, stack, calls>>
          ELSE /\ pst' = [pst EXCEPT !.isfile_checks = @ + 1,
                                     !.open_calls = @ + 1,
                                     !.is_open = TRUE]
               /\ \E a \in Archives(MaxMainFolders, MaxMainMessages) :
                     archive' = Some(a)
               /\ stack' = <<Frame(1)>>
               /\ calls' = <<1>>
               /\ pc' = "get_folder_emails"
               /\ UNCHANGED status
    /\ emails' = <<>>
    /\ UNCHANGED <<args, criteria, visits, appended, output, printed, message,
                   email, result>>

\* the try block around open(), json.dump() and the success line
WriteOutput ==
    /\ pc = "write"
    /\ \E outcome \in {"ok", "open_fails", "dump_fails", "print_fails"} :
          IF outcome = "ok"
          THEN /\ output' = [state |-> "complete", data |-> emails]
               /\ printed' = Some(Len(emails))
               /\ pc' = "close"
               /\ UNCHANGED status
          ELSE /\ output' = IF outcome = "open_fails" THEN output
                            ELSE IF outcome = "dump_fails"
                            THEN [state |-> "partial", data |-> <<>>]
                            ELSE [state |-> "complete", data |-> emails]
               /\ Exit(1)
               /\ UNCHANGED printed
    /\ UNCHANGED <<args, criteria, archive, pst, stack, emails, calls, visits,
                   appended, message, email, result>>

\* pst.close() and the return of main
ClosePst ==
    /\ pc = "close"
    /\ pst' = [pst EXCEPT !.close_calls = @ + 1, !.is_open = FALSE]
    /\ Exit(0)
    /\ UNCHANGED <<args, criteria, archive, stack, emails, calls, visits,
                   appended, output, printed, message, email, result>>

----------------------------------------------------------------------------
(* Inputs *)

RECURSIVE StrTuples(_, _)
\* the k-tuples of strings of at most t characters in all
StrTuples(k, t) ==
    IF k = 0 THEN {<<>>}
    ELSE UNION {{<<s>> \o rest : rest \in StrTuples(k - 1, t - Len(s))} :
                   s \in Str(t)}

OptLen(o) == IF IsNone(o) THEN 0 ELSE Len(Get(o))

RECURSIVE OptStrTuples(_, _)
\* the k-tuples of optional strings of at most t characters in all
OptStrTuples(k, t) ==
    IF k = 0 THEN {<<>>}
    ELSE UNION {{<<o>> \o rest : rest \in OptStrTuples(k - 1, t - OptLen(o))} :
                   o \in OptStr(t)}

RECURSIVE SumLen(_)
SumLen(t) == IF t = <<>> THEN 0 ELSE Len(Head(t)) + SumLen(Tail(t))

\* what the command line can hold for a date: nothing, the empty string,
\* a text that is no date, the text of a day
DateArgs ==
    {None, Some(<<>>), Some(<<"x">>)} \cup {Some(<<DigitOf(d)>>) : d \in 0..MaxDay}

ArgsSet ==
    [date_from : DateArgs, date_to : DateArgs, from_address : {None},
     subject : {None, Some(<<"A">>)}, body : {None}]

\* the criteria main can build: a date bound is the midnight strptime returns
DateBounds == {None} \cup {Some(Midnight(d)) : d \in 0..MaxDay}

\* the delivery_time extract_email_fields can produce
DeliveryTexts == {None} \cup {Some(IsoFormat(d)) : d \in DateTimes}
MidnightTexts == {None} \cup {Some(IsoFormat(Midnight(d))) : d \in 0..MaxDay}

DeliveryAttrs ==
    {[kind |-> k, dt |-> Midnight(0)] : k \in {"absent", "raises", "unrenderable"}}
        \cup {[kind |-> "ok", dt |-> d] : d \in DateTimes}

Messages ==
    {[subject |-> f[1], plain_text_body |-> f[2], html_body |-> f[3],
      sender_name |-> f[4], display_to |-> f[5], delivery_time |-> t] :
        f \in OptStrTuples(5, MaxMessageChars), t \in DeliveryAttrs}

NoHarness == message = None /\ email = None /\ result = None

NoRun ==
    /\ args = None /\ archive = None /\ pst = NoHandle /\ stack = <<>>
    /\ emails = <<>> /\ calls = <<>> /\ visits = <<>> /\ appended = <<>>
    /\ output = NoOutput /\ printed = None /\ status = None

----------------------------------------------------------------------------
(* A run of main *)

Init ==
    /\ pc = "parse_date_from"
    /\ args \in {Some(a) : a \in ArgsSet}
    /\ criteria = EmptyCriteria
    /\ archive = None /\ pst = NoHandle /\ stack = <<>>
    /\ emails = <<>> /\ calls = <<>> /\ visits = <<>> /\ appended = <<>>
    /\ output = NoOutput /\ printed = None /\ status = None
    /\ NoHarness

Next ==
    \/ ParseDateFrom
    \/ ParseDateTo
    \/ OpenPst
    \/ Recurse
    \/ ProcessMessage
    \/ ReturnFromFolder
    \/ WriteOutput
    \/ ClosePst

Spec == Init /\ [][Next]_vars

----------------------------------------------------------------------------
(* get_folder_emails called on the root of an archive, with an accumulator *)
(* that may already hold a record                                          *)

WalkCriteria ==
    {EmptyCriteria, [EmptyCriteria EXCEPT !.subject = Some(<<"A">>)]}

EarlierRecord ==
    [subject |-> <<"A">>, body |-> <<>>, from |-> <<>>, to |-> <<>>,
     delivery_time |-> None]

WalkInit ==
    /\ pc = "get_folder_emails"
    /\ args = None
    /\ criteria \in WalkCriteria
    /\ archive \in {Some(a) : a \in Archives(MaxFolders, MaxMessages)}
    /\ pst = NoHandle
    /\ stack = <<Frame(1)>>
    /\ emails \in {<<>>, <<EarlierRecord>>}
    /\ calls = <<1>> /\ visits = <<>> /\ appended = <<>>
    /\ output = NoOutput /\ printed = None /\ status = None
    /\ NoHarness

WalkNext == Recurse \/ ProcessMessage \/ ReturnFromFolder

WalkSpec == WalkInit /\ [][WalkNext]_vars

----------------------------------------------------------------------------
(* extract_email_fields applied to one message *)

ExtractInit ==
    /\ NoRun
    /\ pc = "extract_call"
    /\ criteria = EmptyCriteria
    /\ message \in {Some(m) : m \in Messages}
    /\ email = None
    /\ result = None

ExtractCall ==
    /\ pc = "extract_call"
    /\ result' = Some(extract_email_fields(Get(message)))
    /\ pc' = "extract_return"
    /\ UNCHANGED <<args, criteria, archive, pst, stack, emails, calls, visits,
                   appended, output, printed, status, message, email>>

ExtractNext == ExtractCall

ExtractSpec == ExtractInit /\ [][ExtractNext]_vars

----------------------------------------------------------------------------
(* email_matches_criteria applied to one record and one criteria dict *)

\* a call on a record e
MatchCall(e) ==
    /\ pc = "match_call"
    /\ email' = Some(e)
    /\ result' = Some(email_matches_criteria(e, criteria))
    /\ pc' = "match_return"
    /\ UNCHANGED <<args, criteria, archive, pst, stack, emails, calls, visits,
                   appended, output, printed, status, message>>

CriteriaChars(c) ==
    OptLen(c.from_address) + OptLen(c.subject) + OptLen(c.body)

\* every criteria dict main can build whose strings hold at most MaxChars
\* characters in all
MatchInit ==
    /\ NoRun
    /\ pc = "match_call"
    /\ message = None /\ email = None /\ result = None
    /\ \E n \in OptStrTuples(3, MaxChars) :
          criteria \in [date_from : DateBounds, date_to : DateBounds,
                        from_address : {n[1]}, subject : {n[2]}, body : {n[3]}]

\* every record whose strings, with those of the criteria, hold at most
\* MaxChars characters in all, delivered at midnight or without a time
MatchNext ==
    /\ pc = "match_call"
    /\ \E f \in StrTuples(3, MaxChars - CriteriaChars(criteria)) :
          \E t \in MidnightTexts :
             MatchCall([subject |-> f[1], body |-> f[2], from |-> f[3],
                        to |-> <<>>, delivery_time |-> t])

MatchSpec == MatchInit /\ [][MatchNext]_vars

\* every pair of date bounds, the substring criteria unset or empty
DateInit ==
    /\ NoRun
    /\ pc = "match_call"
    /\ message = None /\ email = None /\ result = None
    /\ criteria \in [date_from : DateBounds, date_to : DateBounds,
                     from_address : {None, Some(<<>>)},
                     subject : {None, Some(<<>>)}, body : {None, Some(<<>>)}]

\* every delivery time extract_email_fields can produce
DateNext ==
    /\ pc = "match_call"
    /\ \E s \in Str(1) : \E t \in DeliveryTexts :
          MatchCall([subject |-> s, body |-> <<>>, from |-> <<>>, to |-> <<>>,
                     delivery_time |-> t])

DateSpec == DateInit /\ [][DateNext]_vars

----------------------------------------------------------------------------
(* What the properties speak of *)

Returned(at) == pc = at

\* a datetime as a number of microseconds
Stamp(d) == (d.day * (MaxSec + 1) + d.sec) * (MaxMicro + 1) + d.us

\* the datetime an ISO-8601 text denotes
TimeOf(text) == CHOOSE d \in DateTimes : IsoFormat(d) = text

SameLetter(x, y) == x = y \/ {x, y} = {"a", "A"}

CaseInsensitiveIn(n, h) ==
    \E k \in 0..(Len(h) - Len(n)) : \A i \in 1..Len(n) : SameLetter(n[i], h[k + i])

CriterionPasses(o, field) ==
    (~IsNone(o) /\ Len(Get(o)) > 0) => CaseInsensitiveIn(Get(o), field)

DateSet(c) == c.date_from # None \/ c.date_to # None

WithinBounds(e, c) ==
    LET t == Stamp(TimeOf(Get(e.delivery_time)))
    IN  /\ c.date_from # None => Stamp(Get(c.date_from)) <= t
        /\ c.date_to # None => t <= Stamp(Get(c.date_to))

DateCheckPasses(e, c) ==
    DateSet(c) => (e.delivery_time # None /\ WithinBounds(e, c))

EmptyAsUnset(c) ==
    [c EXCEPT !.from_address = IF @ = Some(<<>>) THEN None ELSE @,
              !.subject = IF @ = Some(<<>>) THEN None ELSE @,
              !.body = IF @ = Some(<<>>) THEN None ELSE @]

----------------------------------------------------------------------------
(* Properties of email_matches_criteria *)

\* C4: a record whose delivery_time is null never matches when date_from or
\* date_to is set, whatever its other fields and the other criteria.
C4_NullTimeNeverMatches ==
    (Returned("match_return") /\ Get(email).delivery_time = None
        /\ DateSet(criteria))
    => Get(result) = FALSE

\* a null delivery time, only date_from set, and a subject criterion the
\* record satisfies
C4_Witness ==
    /\ Returned("match_return")
    /\ Get(email).delivery_time = None
    /\ criteria.date_from # None /\ criteria.date_to = None
    /\ criteria.subject = Some(<<"A">>) /\ Get(email).subject = <<"b", "a">>
    /\ criteria.from_address = None /\ criteria.body = None
    /\ Get(result) = FALSE

\* C5: with no substring criterion set, a record with a delivery time
\* matches exactly when date_from <= delivery_time (if date_from is set) and
\* delivery_time <= date_to (if date_to is set): both bounds are inclusive.
C5_InclusiveBounds ==
    (Returned("match_return") /\ Get(email).delivery_time # None)
    => Get(result) = WithinBounds(Get(email), criteria)

\* the delivery time equals both bounds, and the record matches
C5_Witness ==
    /\ Returned("match_return")
    /\ Get(email).delivery_time = Some(IsoFormat(Midnight(1)))
    /\ criteria.date_from = Some(Midnight(1))
    /\ criteria.date_to = Some(Midnight(1))
    /\ Get(result) = TRUE

\* C6: with every criterion unset every record matches, and a substring
\* criterion that is the empty string changes nothing: the result is the
\* result for the criteria with that criterion unset.
C6_EmptyCriteria ==
    Returned("match_return")
    => /\ EmptyAsUnset(criteria) = EmptyCriteria => Get(result) = TRUE
       /\ Get(result) = email_matches_criteria(Get(email), EmptyAsUnset(criteria))

\* an empty subject criterion alone, on a record with nothing in it
C6_Witness ==
    /\ Returned("match_return")
    /\ criteria = [EmptyCriteria EXCEPT !.subject = Some(<<>>)]
    /\ Get(email).subject = <<>> /\ Get(email).delivery_time = None
    /\ Get(result) = TRUE

\* C7: the result is the conjunction of the active checks: the date check
\* when a bound is set, and for each non-empty from_address, subject and
\* body criterion, its containment, letter case ignored, in the record's
\* from, subject and body.
C7_Conjunction ==
    Returned("match_return")
    => Get(result) =
          (/\ DateCheckPasses(Get(email), criteria)
           /\ CriterionPasses(criteria.from_address, Get(email).from)
           /\ CriterionPasses(criteria.subject, Get(email).subject)
           /\ CriterionPasses(criteria.body, Get(email).body))

\* only the subject criterion set, found in another case past the first
\* letter of the subject
C7_Witness ==
    /\ Returned("match_return")
    /\ criteria = [EmptyCriteria EXCEPT !.subject = Some(<<"A">>)]
    /\ Get(email).subject = <<"b", "a">>
    /\ Get(result) = TRUE

----------------------------------------------------------------------------
(* Properties of extract_email_fields *)

WithReadableTime(m) ==
    [m EXCEPT !.delivery_time = [kind |-> "ok", dt |-> Midnight(0)]]

\* C10: extraction never fails on the delivery timestamp.  When it is absent
\* or reading or rendering it raises, delivery_time is null and the other
\* four fields are those of the same message with a readable timestamp; when
\* it is readable, delivery_time is its ISO-8601 text.
C10_TimestampNeverFails ==
    Returned("extract_return")
    => LET m == Get(message)
           r == Get(result)
           o == extract_email_fields(WithReadableTime(m))
       IN  /\ ~r.raised
           /\ r.value.subject = o.value.subject
           /\ r.value.body = o.value.body
           /\ r.value.from = o.value.from
           /\ r.value.to = o.value.to
           /\ m.delivery_time.kind # "ok" => r.value.delivery_time = None
           /\ m.delivery_time.kind = "ok" =>
                 /\ r.value.delivery_time # None
                 /\ TimeOf(Get(r.value.delivery_time)) = m.delivery_time.dt

\* a message whose timestamp raises when read, and that has a subject
C10_Witness ==
    /\ Returned("extract_return")
    /\ Get(message).delivery_time.kind = "raises"
    /\ Get(message).subject = Some(<<"a", "b">>)
    /\ Get(result).value.subject = <<"a", "b">>
    /\ Get(result).value.delivery_time = None

----------------------------------------------------------------------------
(* Properties of get_folder_emails *)

RECURSIVE PathTo(_, _)
\* the folders from the root down to f
PathTo(a, f) == IF f = 1 THEN <<1>> ELSE Append(PathTo(a, a.parent[f]), f)

IsPrefix(s, t) == Len(s) <= Len(t) /\ SubSeq(t, 1, Len(s)) = s

\* message x comes before message y in the order that puts, for every
\* folder, the messages below its sub-folders (sub-folder by sub-folder, in
\* index order) before the folder's own messages (in index order)
SubFoldersFirst(a, x, y) ==
    LET px == PathTo(a, a.msgs[x].folder)
        py == PathTo(a, a.msgs[y].folder)
    IN  IF px = py THEN x < y
        ELSE IF IsPrefix(py, px) THEN TRUE
        ELSE IF IsPrefix(px, py) THEN FALSE
        ELSE LET k == CHOOSE i \in 1..Len(px) :
                          px[i] # py[i] /\ \A j \in 1..(i - 1) : px[j] = py[j]
             IN  px[k] < py[k]

RecordOf(a, id) == extract_email_fields(a.msgs[id].msg).value
Matching(a, id) == email_matches_criteria(RecordOf(a, id), criteria)

NoRepeat(s) == \A i, j \in 1..Len(s) : i # j => s[i] # s[j]

\* the records the call has added to the accumulator, and those before them
Added == SubSeq(emails, Len(emails) - Len(appended) + 1, Len(emails))
Earlier == SubSeq(emails, 1, Len(emails) - Len(appended))

\* the tree A{msg1, msg2, subB{msg3}}
ExampleTree(a) ==
    /\ a.parent = <<0, 1>>
    /\ Len(a.msgs) = 3
    /\ a.msgs[1].folder = 1 /\ a.msgs[2].folder = 1 /\ a.msgs[3].folder = 2

WalkedExample ==
    /\ Returned("returned")
    /\ ExampleTree(Get(archive))
    /\ \A id \in 1..3 : Matching(Get(archive), id)

\* C1 as stated: on the tree A{msg1, msg2, subB{msg3}} with criteria every
\* message matches, the records come out in the order msg1, msg2, msg3.
C1_OwnMessagesFirst ==
    WalkedExample
    => /\ appended = <<1, 2, 3>>
       /\ Added = [i \in 1..3 |-> RecordOf(Get(archive), appended[i])]

\* C1 as amended: on that tree the records come out in the order msg3, msg1,
\* msg2: the messages of the sub-folder come before the folder's own.
C1_SubFolderMessagesFirst ==
    WalkedExample
    => /\ appended = <<3, 1, 2>>
       /\ Added = [i \in 1..3 |-> RecordOf(Get(archive), appended[i])]

\* the walk of the example tree has returned, msg3 unlike msg1 and msg2
C1_Witness ==
    /\ WalkedExample
    /\ Get(archive).msgs[3].msg = UnreadableMessage
    /\ Get(archive).msgs[1].msg = ReadableMessage
    /\ Get(archive).msgs[2].msg = ReadableMessage
    /\ Len(emails) = 3

\* steps taken so far: calls entered, calls returned, messages fetched
Progress == 2 * Len(calls) - Len(stack) + Len(visits)

\* the innermost call has a next statement: one of the three steps is enabled
CanStep ==
    /\ stack # <<>>
    /\ Top.folder \in DOMAIN Get(archive).parent
    /\ StepKind(Get(archive), Top) \in {"recurse", "message", "return"}

C9_Always ==
    LET a == Get(archive)
    IN  /\ NoRepeat(calls) /\ NoRepeat(visits)
        /\ \A i \in 1..Len(calls) : calls[i] \in DOMAIN a.parent
        /\ \A i \in 1..Len(visits) : visits[i] \in DOMAIN a.msgs
        /\ pc = "get_folder_emails" => CanStep
        /\ pc # "get_folder_emails" => pc = "returned"
        /\ pc = "returned" =>
              /\ {calls[i] : i \in 1..Len(calls)} = DOMAIN a.parent
              /\ {visits[i] : i \in 1..Len(visits)} = DOMAIN a.msgs
              /\ \A i, j \in 1..Len(visits) :
                    i < j => SubFoldersFirst(a, visits[i], visits[j])
              /\ appended = SelectSeq(visits, LAMBDA id : Matching(a, id))
              /\ Added = [i \in 1..Len(appended) |-> RecordOf(a, appended[i])]

C9_Step ==
    /\ Progress' = Progress + 1
    /\ IsPrefix(emails, emails')
    /\ Earlier' = Earlier

\* C9: on every folder tree the walk ends, having entered every folder and
\* fetched every message exactly once; the accumulator then holds what it
\* held before the call, unchanged, followed by the records of exactly the
\* matching messages, each once, the matches below a folder's sub-folders
\* (in sub-folder index order) before the matches among the folder's own
\* messages (in message index order).  Every step is one more call, return
\* or message, and no folder or message is taken twice.
C9_WalkVisitsAllOnce == [](C9_Always) /\ [][C9_Step]_vars

\* a walk has returned from a tree of three folders holding messages in two
\* of them, some matching and some not, onto an accumulator that held a record
C9_Witness ==
    /\ Returned("returned")
    /\ Len(calls) = 3 /\ Len(visits) = 3
    /\ Get(archive).msgs[1].folder # Get(archive).msgs[2].folder
    /\ Len(appended) = 2
    /\ Earlier = <<EarlierRecord>>
    /\ Len(emails) = 3

----------------------------------------------------------------------------
(* Properties of main *)

\* a date argument that is on the command line and is no date
MalformedDate(arg) == arg # None /\ Strptime(Get(arg)).raised

Opened == archive # None
FileMissing == pst.isfile_checks = 1 /\ pst.open_calls = 0
OpenFailed == pst.open_calls = 1 /\ archive = None
WriteFailed == Opened /\ pc = "exited" /\ output.state # "complete"

\* C2 as stated: a run that opened the archive has closed it exactly once
\* when the process ends, also when writing the output failed.
C2_ClosedExactlyOnce ==
    (pc = "exited" /\ Opened) => pst.close_calls = 1

\* C3 as stated: when --date-from or --date-to is given and is no
\* YYYY-MM-DD date, main never checks for the file nor opens it, and ends
\* with a non-zero status.
C3_BadDateNoArchiveAccess ==
    (MalformedDate(Get(args).date_from) \/ MalformedDate(Get(args).date_to))
    => /\ pst.isfile_checks = 0 /\ pst.open_calls = 0
       /\ pc = "exited" => status = Some(1)

\* C8 as stated: the process ends with a non-zero status when the input
\* file is missing, the archive cannot be opened, a date argument is
\* malformed or the output cannot be written; it ends with status 0 only
\* with the output file holding the records of all matching messages and the
\* count of the accumulated records printed.
C8_ExitStatus ==
    pc = "exited"
    => /\ (\/ MalformedDate(Get(args).date_from)
           \/ MalformedDate(Get(args).date_to)
           \/ FileMissing \/ OpenFailed \/ WriteFailed)
          => status # Some(0)
       /\ status = Some(0) =>
             /\ output.state = "complete"
             /\ output.data = emails
             /\ printed = Some(Len(emails))
             /\ {appended[i] : i \in 1..Len(appended)}
                   = {id \in DOMAIN Get(archive).msgs : Matching(Get(archive), id)}
             /\ emails = [i \in 1..Len(appended) |->
                             RecordOf(Get(archive), appended[i])]

====
